---------------------------- MODULE Spec2Model ----------------------------
(***************************************************************************)
(* Model of the KrakenSDR HTTP control agent: the settings-file bridge     *)
(* (krakensdr_control.py), the DOA feed parser and the HTTP request        *)
(* handlers (kraken_api_agent.py).  One action is one whole handler run;   *)
(* Close is the end of the connection the handler served.                  *)
(***************************************************************************)
EXTENDS Integers, Sequences, FiniteSets, TLC

VARIABLES
    allowedIPs,     \* global allowedIPs built once at startup
    debugHTTP,      \* global debugHTTP (--debug-http)
    settings_file,  \* contents of <settings-path>/settings.json
    settings,       \* KrakenSDRControl.settings: <<>> is None, <<doc>> a staged copy
    request,        \* the request of the open connection, NoRequest when there is none
    responses,      \* responses put on the wire while handling it
    writes,         \* documents save_config wrote while handling it, in order
    reads,          \* number of get_config reads while handling it
    before,         \* settings_file and settings as they were when it arrived
    doa_feed,       \* what the device's DOA page answered to its fetch, if it made one
    doa,            \* outcome of the fetch_and_process_csv call it made, if any
    escaped,        \* TRUE when an exception left the handler (do_HEAD, redirect)
    served,         \* number of requests handled so far
    allowedIPstr,   \* args.allowedips, cut at its commas
    process,        \* the agent process: in __main__, serving, or exited with a code
    call,           \* SpecStore: the update_value call just made, <<>> when none
    heap,           \* SpecThreads: the dicts json.load has built, by index
    worker,         \* SpecThreads: each worker thread's request and position
    written,        \* how much of the document the file holds: "all", "none", "part"
    log             \* SpecThreads: the documents written to the file, with the writer

vars == <<allowedIPs, debugHTTP, settings_file, settings, request, responses,
          writes, reads, before, doa_feed, doa, escaped, served, allowedIPstr,
          process, call, heap, worker, written, log>>

\* the variables of the handler run of Spec
handlerVars == <<request, responses, writes, reads, before, doa_feed, doa,
                 escaped, served>>

\* the variables of the worker threads of SpecThreads
threadVars == <<heap, worker, written, log>>

---------------------------------------------------------------------------
(* Bounds of the model *)

\* VFO indexes offered to the API run over 0..MaxVfoIndex
MaxVfoIndex == 1
\* a DOA feed body has at most MaxRows rows
MaxRows == 2
\* a run handles at most MaxRequests requests
MaxRequests == 2
\* --allowedips has at most MaxEntries comma-separated entries
MaxEntries == 2

---------------------------------------------------------------------------
(* Python values.  A value is a record [ty, k, w, t]:                      *)
(*   ty = "float": k is "fin" (the number w + t/10, 0 <= t <= 9), "nan",   *)
(*                 "inf" or "ninf"                                         *)
(*   ty = "int":   the integer w                                           *)
(*   ty = "bool":  w = 1 for True, 0 for False                             *)
(*   ty = "str":   the text of a literal; k tells which kind of literal:   *)
(*                 "int" (digits, value w), "dec" (digits.digit, value     *)
(*                 w + t/10), "nan", "inf", "ninf", "true", "false",       *)
(*                 "text" (anything else)                                  *)
(*   ty = "list":  a multi-valued query parameter with w elements          *)
(*   ty = "absent": no value (a key the mapping does not hold)             *)

Val(ty, k, w, t) == [ty |-> ty, k |-> k, w |-> w, t |-> t]
Float(w, t) == Val("float", "fin", w, t)
NaN == Val("float", "nan", 0, 0)
Inf == Val("float", "inf", 0, 0)
NegInf == Val("float", "ninf", 0, 0)
PyInt(n) == Val("int", "fin", n, 0)
PyBool(b) == Val("bool", "fin", IF b THEN 1 ELSE 0, 0)
Str(k, w, t) == Val("str", k, w, t)
PyList(n) == Val("list", "fin", n, 0)
Absent == Val("absent", "fin", 0, 0)

IsNumber(v) == v.ty \in {"float", "int", "bool"}

\* Python's < on numbers; every comparison with NaN is False
Lt(a, b) ==
    IF a.k = "nan" \/ b.k = "nan" THEN FALSE
    ELSE IF a.k = "inf" \/ b.k = "ninf" THEN FALSE
    ELSE IF a.k = "ninf" \/ b.k = "inf" THEN TRUE
    ELSE a.w < b.w \/ (a.w = b.w /\ a.t < b.t)

Gt(a, b) == Lt(b, a)

\* Python's == on numbers (an int equals the float of the same value)
PyEq(a, b) ==
    /\ IsNumber(a) /\ IsNumber(b)
    /\ a.k = b.k /\ a.k # "nan"
    /\ a.w = b.w /\ a.t = b.t

\* result of a call that may raise: exc = "" when it returned v
Ok(v) == [exc |-> "", v |-> v]
Raise(e) == [exc |-> e, v |-> Absent]

\* float(x)
float(x) ==
    IF x.ty = "str" THEN
        CASE x.k = "int" -> Ok(Float(x.w, 0))
          [] x.k = "dec" -> Ok(Float(x.w, x.t))
          [] x.k = "nan" -> Ok(NaN)
          [] x.k = "inf" -> Ok(Inf)
          [] x.k = "ninf" -> Ok(NegInf)
          [] OTHER -> Raise("ValueError")
    ELSE IF x.ty = "bool" \/ x.ty = "int" THEN Ok(Float(x.w, 0))
    ELSE IF x.ty = "float" THEN Ok(x)
    ELSE Raise("TypeError")

\* int(x)
int(x) ==
    IF x.ty = "str" THEN
        IF x.k = "int" THEN Ok(PyInt(x.w)) ELSE Raise("ValueError")
    ELSE IF x.ty = "bool" \/ x.ty = "int" THEN Ok(PyInt(x.w))
    ELSE IF x.ty = "float" THEN
        IF x.k = "fin" THEN Ok(PyInt(IF x.w < 0 /\ x.t > 0 THEN x.w + 1 ELSE x.w))
        ELSE Raise(IF x.k = "nan" THEN "ValueError" ELSE "OverflowError")
    ELSE Raise("TypeError")

---------------------------------------------------------------------------
(* krakensdr_control.py: the bridge to settings.json.  A document is a     *)
(* function from keys to values; a key is a tuple of strings, <<"center_   *)
(* freq">> or <<"vfo_freq_", "1">> for "vfo_freq_" + str(1).               *)

Put(d, key, v) == [x \in (DOMAIN d) \cup {key} |-> IF x = key THEN v ELSE d[x]]

\* str(n) of an int
str(n) == ToString(n.w)

\* self.valid_gains, tenths: 0, 0.9, 1.4, ... 49.6
valid_gains ==
    << PyInt(0), Float(0,9), Float(1,4), Float(2,7), Float(3,7), Float(7,7),
       Float(8,7), Float(12,5), Float(14,4), Float(15,7), Float(16,6),
       Float(19,7), Float(20,7), Float(22,9), Float(25,4), Float(28,0),
       Float(29,7), Float(32,8), Float(33,8), Float(36,4), Float(37,2),
       Float(38,6), Float(40,2), Float(42,1), Float(43,4), Float(43,9),
       Float(44,5), Float(48,0), Float(49,6) >>

\* x in list
In(x, list) == \E i \in 1..Len(list) : PyEq(list[i], x)

(* The state a call works on: st = [file, settings, writes, reads], and a  *)
(* call returns [st, exc], exc = "" when it returned normally.             *)

Done(st) == [st |-> st, exc |-> ""]
Fail(st, e) == [st |-> st, exc |-> e]

\* get_config: json.load of the file (the value read is st.file)
get_config(st) == [st EXCEPT !.reads = @ + 1]

\* save_config: json.dump rewrites the file
save_config(st, new_config) ==
    [st EXCEPT !.file = new_config, !.writes = Append(@, new_config)]

update_value_keeps_staged(st, key, new_value, save_file) ==
    LET st1 == IF st.settings = <<>> THEN get_config(st) ELSE st
        cur == IF st.settings = <<>> THEN st1.file ELSE st.settings[1]
        new == Put(cur, key, new_value)
    IN  IF save_file
        THEN save_config(st1, new)
        ELSE [st1 EXCEPT !.settings = <<new>>]

update_value_mutant(st, key, new_value, save_file) ==
    LET st1 == IF st.settings = <<>> THEN get_config(st) ELSE st
        cur == IF st.settings = <<>> THEN st1.file ELSE st.settings[1]
        new == Put(cur, key, new_value)
    IN  [save_config(st1, new) EXCEPT !.settings = <<>>]

update_value(st, key, new_value, save_file) ==
    LET st1 == IF st.settings = <<>> THEN get_config(st) ELSE st
        cur == IF st.settings = <<>> THEN st1.file ELSE st.settings[1]
        new == Put(cur, key, new_value)
    IN  IF save_file
        THEN [save_config(st1, new) EXCEPT !.settings = <<>>]
        ELSE [st1 EXCEPT !.settings = <<new>>]

optimize_short_bursts(st, new_state, save_file) ==
    Done(update_value(st, <<"en_optimize_short_bursts">>, new_state, save_file))

set_frequency(st, new_frequency_mhz, save_file) ==
    Done(update_value(st, <<"center_freq">>, new_frequency_mhz, save_file))

set_output_vfo(st, vfo_number, vfo, save_file) ==
    Done(update_value(st, <<"output_vfo">>, vfo, save_file))

set_vfo_frequency(st, vfo_number, frequency, save_file) ==
    Done(update_value(st, <<"vfo_freq_", str(vfo_number)>>, frequency, save_file))

set_vfo_bandwidth(st, vfo_number, bw, save_file) ==
    Done(update_value(st, <<"vfo_bw_", str(vfo_number)>>, bw, save_file))

set_gain(st, gain, save_file) ==
    IF ~In(gain, valid_gains)
    THEN Fail(st, "Exception")
    ELSE Done(update_value(st, <<"uniform_gain">>, gain, save_file))

\* the location fields set_coordinates applies, in the order of its code
CoordFields ==
    << [name |-> "latitude", conv |-> "float", required |-> TRUE],
       [name |-> "longitude", conv |-> "float", required |-> TRUE],
       [name |-> "heading", conv |-> "float", required |-> FALSE],
       [name |-> "location_source", conv |-> "", required |-> FALSE],
       [name |-> "gps_fixed_heading", conv |-> "", required |-> FALSE],
       [name |-> "gps_min_speed", conv |-> "int", required |-> FALSE],
       [name |-> "gps_min_speed_duration", conv |-> "int", required |-> FALSE] >>

RECURSIVE ApplyCoordinates(_, _, _)
ApplyCoordinates(doc, coordinates, i) ==
    IF i > Len(CoordFields) THEN [doc |-> doc, exc |-> ""]
    ELSE LET f == CoordFields[i] IN
         IF f.name \notin DOMAIN coordinates
         THEN IF f.required THEN [doc |-> doc, exc |-> "KeyError"]
              ELSE ApplyCoordinates(doc, coordinates, i + 1)
         ELSE LET r == CASE f.conv = "float" -> float(coordinates[f.name])
                         [] f.conv = "int" -> int(coordinates[f.name])
                         [] OTHER -> Ok(coordinates[f.name])
              IN  IF r.exc # "" THEN [doc |-> doc, exc |-> r.exc]
                  ELSE ApplyCoordinates(Put(doc, <<f.name>>, r.v), coordinates, i + 1)

set_coordinates(st, coordinates) ==
    LET st1 == get_config(st)
        r == ApplyCoordinates(st1.file, coordinates, 1)
    IN  IF r.exc # "" THEN Fail(st1, r.exc) ELSE Done(save_config(st1, r.doc))

---------------------------------------------------------------------------
(* kraken_api_agent.py: the DOA feed parser.  A feed is [status, rows]:    *)
(* status "ok", "unreachable" (requests.get raises) or "http_error"        *)
(* (raise_for_status raises).  A row is [id, ncols, epoch, base, power]:   *)
(* its column count, the text of the epoch column, the text of the float   *)
(* columns of the base fields (one text stands for the nine of them) and   *)
(* the text of the DOA power columns (one text stands for the 360).        *)

NumBaseFields == 13
NumReservedFields == 4
NumDoaFields == 360
NumFields == NumBaseFields + NumReservedFields + NumDoaFields

\* the body of the for loop on one row: "skip" (continue), "raise", or a record
ProcessRow(row) ==
    IF row.ncols < NumFields THEN [what |-> "skip", exc |-> "", rec |-> <<>>]
    ELSE LET e == int(row.epoch)
             b == float(row.base)
             d == float(row.power)
         IN  IF e.exc = "ValueError" \/ b.exc = "ValueError"
             THEN [what |-> "skip", exc |-> "", rec |-> <<>>]
             ELSE IF d.exc # ""
             THEN [what |-> "raise", exc |-> d.exc, rec |-> <<>>]
             ELSE [what |-> "row", exc |-> "",
                   rec |-> <<[id |-> row.id, epoch |-> e.v,
                              utc_timestamp |-> e.v.w \div 1000,
                              base |-> b.v, doa_output |-> d.v]>>]

RECURSIVE ProcessRows(_, _, _)
ProcessRows(csv_reader, i, rows) ==
    IF i > Len(csv_reader) THEN [exc |-> "", rows |-> rows]
    ELSE LET r == ProcessRow(csv_reader[i]) IN
         IF r.what = "raise" THEN [exc |-> r.exc, rows |-> <<>>]
         ELSE ProcessRows(csv_reader, i + 1, rows \o r.rec)

\* returns [exc, rows]: exc # "" when the exception reaches the caller
fetch_and_process_csv(feed) ==
    IF feed.status # "ok" THEN [exc |-> "", rows |-> <<>>]
    ELSE ProcessRows(feed.rows, 1, <<>>)

---------------------------------------------------------------------------
(* kraken_api_agent.py: the request handlers.  A request is [method,       *)
(* client, path, query, length]: path is the URL path cut into pieces,     *)
(* query is what parse_qs makes of the query string (a function from the   *)
(* parameter names present to the non-empty list of their values), length  *)
(* the Content-Length.  A handler run works on h = [st, responses, doa,    *)
(* escaped].                                                               *)

\* html_dir = None: direct serving of files is switched off
html_dir == <<>>

ApiPrefix == <<"/", "api/krakensdr/">>

startswith(s, prefix) ==
    Len(prefix) <= Len(s) /\ SubSeq(s, 1, Len(prefix)) = prefix

\* s.path: the path and, when there is one, the query string
RawPath(req) == req.path \o (IF DOMAIN req.query = {} THEN <<>> ELSE <<"?">>)

\* the while loop that strips leading "/" and "." from url_path
RECURSIVE StripLeading(_)
StripLeading(url_path) ==
    IF url_path # <<>> /\ Head(url_path) \in {"/", "."}
    THEN StripLeading(Tail(url_path))
    ELSE url_path

param_data_to_dict(q) ==
    [cur_key \in DOMAIN q |->
        IF Len(q[cur_key]) = 1
        THEN LET v == q[cur_key][1] IN
             IF v.k = "true" THEN PyBool(TRUE)
             ELSE IF v.k = "false" THEN PyBool(FALSE)
             ELSE v
        ELSE PyList(Len(q[cur_key]))]

\* log_message: with debugHTTP it calls the class BaseHTTPRequestHandler with
\* four arguments, which raises TypeError; send_response logs before it sends
log_message == IF ~debugHTTP THEN "" ELSE "TypeError"

build_base_dict == [errcode |-> 0, errmsg |-> "", extra |-> <<>>]

\* the send_response in its try block raises under debugHTTP: nothing is sent
return_json_dict(h, responsedict) ==
    IF log_message # "" THEN h
    ELSE [h EXCEPT !.responses =
              Append(@, [status |-> 200, ctype |-> "json", json |-> <<responsedict>>])]

return_error_json(h, err_code, err_msg) ==
    return_json_dict(h, [errcode |-> err_code, errmsg |-> err_msg, extra |-> <<>>])

\* the 403 answer of do_GET and do_POST, inside try/except: pass
Forbidden(h) ==
    IF log_message # "" THEN h
    ELSE [h EXCEPT !.responses =
              Append(@, [status |-> 403, ctype |-> "html", json |-> <<>>])]

\* a bare send_response outside any try: the exception leaves the handler
SendPlain(h, code) ==
    IF log_message # "" THEN [h EXCEPT !.escaped = TRUE]
    ELSE [h EXCEPT !.responses =
              Append(@, [status |-> code, ctype |-> "html", json |-> <<>>])]

\* end of an operation's try block: r = [st, exc] is what the settings call did
Finish(h, r) ==
    IF r.exc = "" THEN return_json_dict([h EXCEPT !.st = r.st], build_base_dict)
    ELSE return_error_json([h EXCEPT !.st = r.st], 3, "ERROR setting value")

MissingKey(h) == return_error_json(h, 1, "Correct key not specified in request")

Has(param_data, k) == k \in DOMAIN param_data

\* s.path == '/api/krakensdr/get_config'
do_GET_get_config(h) ==
    LET st1 == get_config(h.st) IN
    return_json_dict([h EXCEPT !.st = st1],
        [errcode |-> 0, errmsg |-> "",
         extra |-> <<[key |-> "settings", val |-> <<st1.file>>]>>])

\* s.path.startswith('/api/krakensdr/set_frequency')
do_GET_set_frequency(h, param_data) ==
    IF ~Has(param_data, "freq") THEN MissingKey(h)
    ELSE LET new_freq == float(param_data["freq"]) IN
    IF new_freq.exc # "" THEN Finish(h, Fail(h.st, new_freq.exc))
    ELSE IF Lt(new_freq.v, Float(24, 0)) \/ Gt(new_freq.v, Float(1766, 0))
    THEN return_error_json(h, 1, "Frequency range error")
    ELSE IF ~Has(param_data, "gain")
    THEN Finish(h, set_frequency(h.st, new_freq.v, TRUE))
    ELSE LET gain == float(param_data["gain"]) IN
    IF gain.exc # "" THEN Finish(h, Fail(h.st, gain.exc))
    ELSE LET staged == set_frequency(h.st, new_freq.v, FALSE) IN
         Finish(h, set_gain(staged.st, gain.v, TRUE))

\* s.path == "/api/krakensdr/get_doa"
do_GET_get_doa(h, feed) ==
    LET doa_info == fetch_and_process_csv(feed)
        h1 == [h EXCEPT !.doa = <<doa_info>>]
    IN  IF doa_info.exc # "" THEN return_error_json(h1, 1, "ERROR getting config")
        \* doa_info is a list, never None: doa_info[0] of [] raises IndexError,
        \* which the handler's outer except reports
        ELSE IF doa_info.rows = <<>>
        THEN return_error_json(h1, 5, "Unhandled GET exception")
        ELSE return_json_dict(h1,
                [errcode |-> 0, errmsg |-> "",
                 extra |-> <<[key |-> "doa_info", val |-> <<doa_info.rows[1]>>]>>])

\* s.path.startswith('/api/krakensdr/set_frequency_and_vfo')
do_GET_set_frequency_and_vfo(h, param_data) ==
    IF ~Has(param_data, "freq") THEN MissingKey(h)
    ELSE IF ~Has(param_data, "vfo_index") THEN MissingKey(h)
    ELSE IF ~Has(param_data, "vfo_freq") THEN MissingKey(h)
    ELSE LET new_freq == float(param_data["freq"]) IN
    IF new_freq.exc # "" THEN Finish(h, Fail(h.st, new_freq.exc))
    ELSE IF Lt(new_freq.v, Float(24, 0)) \/ Gt(new_freq.v, Float(1766, 0))
    THEN return_error_json(h, 1, "Frequency range error")
    ELSE LET index == int(param_data["vfo_index"]) IN
    IF index.exc # "" THEN Finish(h, Fail(h.st, index.exc))
    ELSE LET vfo_freq == float(param_data["vfo_freq"]) IN
    IF vfo_freq.exc # "" THEN Finish(h, Fail(h.st, vfo_freq.exc))
    ELSE IF Lt(vfo_freq.v, Float(24000000, 0)) \/ Gt(vfo_freq.v, Float(1766000000, 0))
    THEN return_error_json(h, 1, "VFO Frequency range error")
    ELSE LET staged == set_frequency(h.st, new_freq.v, FALSE) IN
         Finish(h, set_vfo_frequency(staged.st, index.v, vfo_freq.v, TRUE))

\* s.path.startswith('/api/krakensdr/set_gain')
do_GET_set_gain(h, param_data) ==
    IF ~Has(param_data, "gain") THEN MissingKey(h)
    ELSE LET gain == float(param_data["gain"]) IN
    IF gain.exc # "" THEN Finish(h, Fail(h.st, gain.exc))
    ELSE Finish(h, set_gain(h.st, gain.v, TRUE))

\* s.path.startswith('/api/krakensdr/set_output_vfo'): the call passes one
\* argument where set_output_vfo takes two, which raises TypeError
do_GET_set_output_vfo(h, param_data) ==
    IF ~Has(param_data, "vfo_index") THEN MissingKey(h)
    ELSE LET index == int(param_data["vfo_index"]) IN
    IF index.exc # "" THEN Finish(h, Fail(h.st, index.exc))
    ELSE Finish(h, Fail(h.st, "TypeError"))

\* s.path.startswith('/api/krakensdr/en_optimize_short_bursts')
do_GET_en_optimize_short_bursts(h, param_data) ==
    IF ~Has(param_data, "state") THEN MissingKey(h)
    ELSE Finish(h, optimize_short_bursts(h.st, param_data["state"], TRUE))

\* s.path.startswith('/api/krakensdr/set_vfo_frequency')
do_GET_set_vfo_frequency(h, param_data) ==
    IF ~Has(param_data, "vfo_index") THEN MissingKey(h)
    ELSE IF ~Has(param_data, "vfo_freq") THEN MissingKey(h)
    ELSE LET index == int(param_data["vfo_index"]) IN
    IF index.exc # "" THEN Finish(h, Fail(h.st, index.exc))
    ELSE LET freq == float(param_data["vfo_freq"]) IN
    IF freq.exc # "" THEN Finish(h, Fail(h.st, freq.exc))
    ELSE IF Lt(freq.v, Float(24000000, 0)) \/ Gt(freq.v, Float(1766000000, 0))
    THEN return_error_json(h, 1, "Frequency range error")
    ELSE Finish(h, set_vfo_frequency(h.st, index.v, freq.v, TRUE))

\* s.path.startswith('/api/krakensdr/set_vfo_bandwidth'): the call names the
\* local freq, which this branch never binds: UnboundLocalError
do_GET_set_vfo_bandwidth(h, param_data) ==
    IF ~Has(param_data, "vfo_index") THEN MissingKey(h)
    ELSE IF ~Has(param_data, "vfo_bw") THEN MissingKey(h)
    ELSE LET index == int(param_data["vfo_index"]) IN
    IF index.exc # "" THEN Finish(h, Fail(h.st, index.exc))
    ELSE LET bw == float(param_data["vfo_bw"]) IN
    IF bw.exc # "" THEN Finish(h, Fail(h.st, bw.exc))
    ELSE IF PyEq(bw.v, PyInt(0)) \/ Gt(bw.v, Float(2400000, 0))
    THEN return_error_json(h, 1, "Bandwidth error")
    ELSE Finish(h, Fail(h.st, "UnboundLocalError"))

\* s.path.startswith('/api/krakensdr/set_coordinates'): the call names the
\* local index, which this branch never binds: UnboundLocalError
do_GET_set_coordinates(h, param_data) ==
    IF ~Has(param_data, "latitude") \/ ~Has(param_data, "longitude")
    THEN MissingKey(h)
    ELSE Finish(h, Fail(h.st, "UnboundLocalError"))

\* x in allowedIPs
Allowed(client) == \E i \in 1..Len(allowedIPs) : allowedIPs[i] = client

do_GET(h, req, feed) ==
    IF Len(allowedIPs) > 0 /\ ~Allowed(req.client) THEN Forbidden(h)
    ELSE IF Len(StripLeading(req.path)) = 0 THEN SendPlain(h, 302)
    \* html_dir is None: no direct serving
    ELSE LET path == RawPath(req)
             param_data == param_data_to_dict(req.query)
         IN
    IF path = ApiPrefix \o <<"get_config">> THEN do_GET_get_config(h)
    ELSE IF startswith(path, ApiPrefix \o <<"set_frequency">>)
    THEN do_GET_set_frequency(h, param_data)
    ELSE IF path = ApiPrefix \o <<"get_doa">> THEN do_GET_get_doa(h, feed)
    ELSE IF startswith(path, ApiPrefix \o <<"set_frequency", "_and_vfo">>)
    THEN do_GET_set_frequency_and_vfo(h, param_data)
    ELSE IF startswith(path, ApiPrefix \o <<"set_gain">>)
    THEN do_GET_set_gain(h, param_data)
    ELSE IF startswith(path, ApiPrefix \o <<"set_output_vfo">>)
    THEN do_GET_set_output_vfo(h, param_data)
    ELSE IF startswith(path, ApiPrefix \o <<"en_optimize_short_bursts">>)
    THEN do_GET_en_optimize_short_bursts(h, param_data)
    ELSE IF startswith(path, ApiPrefix \o <<"set_vfo_frequency">>)
    THEN do_GET_set_vfo_frequency(h, param_data)
    ELSE IF startswith(path, ApiPrefix \o <<"set_vfo_bandwidth">>)
    THEN do_GET_set_vfo_bandwidth(h, param_data)
    ELSE IF startswith(path, ApiPrefix \o <<"set_coordinates">>)
    THEN do_GET_set_coordinates(h, param_data)
    ELSE return_error_json(h, 5, "Unknown request")

do_POST(h, req) ==
    IF Len(allowedIPs) > 0 /\ ~Allowed(req.client) THEN Forbidden(h)
    ELSE IF req.length <= 0
    THEN return_error_json(h, 1, "Agent received a zero-length request.")
    ELSE return_error_json(h, 5, "Unhandled POST")

\* do_HEAD has no allow-list test
do_HEAD(h, req) == SendPlain(h, 200)

---------------------------------------------------------------------------
(* kraken_api_agent.py: startup.  The --allowedips string is the sequence  *)
(* of its comma-separated pieces ("" is the one empty piece), and a piece  *)
(* is a sequence of tokens: a dotted quad ("10.0.0.5"), a blank " " or a   *)
(* run of other characters "x".                                            *)

Quads == {"10.0.0.5", "10.0.0.6"}

\* len(allowedIPstr) > 0
NonEmpty(str_) == ~(Len(str_) = 1 /\ str_[1] = <<>>)

\* curItem.replace(' ', '')
replace(curItem) == SelectSeq(curItem, LAMBDA tok : tok # " ")

\* ippattern.search(ipStr).group(1): the leftmost dotted quad in ipStr; with
\* no match search returns None and .group raises AttributeError
RECURSIVE search(_)
search(ipStr) ==
    IF ipStr = <<>> THEN Raise("AttributeError")
    ELSE IF Head(ipStr) \in Quads THEN Ok(Head(ipStr))
    ELSE search(Tail(ipStr))

\* the for loop over tmpList: exit(3) at the first piece without a match
RECURSIVE buildAllowedIPsLoop(_, _, _)
buildAllowedIPsLoop(tmpList, i, list) ==
    IF i > Len(tmpList) THEN [allowedIPs |-> list, ret |-> TRUE, exit |-> 0]
    ELSE LET ipValue == search(replace(tmpList[i])) IN
         IF ipValue.exc # "" THEN [allowedIPs |-> list, ret |-> FALSE, exit |-> 3]
         ELSE buildAllowedIPsLoop(tmpList, i + 1, Append(list, ipValue.v))

\* returns [allowedIPs, ret, exit]: the global it leaves, the value it returns
\* and the code it exits the process with (0: it returned)
buildAllowedIPs(str_) ==
    IF ~NonEmpty(str_) THEN [allowedIPs |-> <<>>, ret |-> TRUE, exit |-> 0]
    ELSE IF Len(str_) > 1 THEN buildAllowedIPsLoop(str_, 1, <<>>)
    ELSE LET ipValue == search(replace(str_[1])) IN
         IF ipValue.exc # "" THEN [allowedIPs |-> <<>>, ret |-> FALSE, exit |-> 0]
         ELSE [allowedIPs |-> <<ipValue.v>>, ret |-> TRUE, exit |-> 0]

\* __main__ from buildAllowedIPs(args.allowedips) on: the value returned is
\* dropped; run() exits with 1 when the port cannot be bound, else it serves
main(str_, port_free) ==
    LET b == buildAllowedIPs(str_) IN
    IF b.exit # 0 THEN [allowedIPs |-> b.allowedIPs, phase |-> "exited", code |-> b.exit]
    ELSE IF ~port_free THEN [allowedIPs |-> b.allowedIPs, phase |-> "exited", code |-> 1]
    ELSE [allowedIPs |-> b.allowedIPs, phase |-> "serving", code |-> 0]

---------------------------------------------------------------------------
(* Inputs: the requests clients send and the feeds the device serves.      *)

Dec(w, t) == Str("dec", w, t)
Lit(n) == Str("int", n, 0)
Word(k) == Str(k, 0, 0)

\* values of freq (MHz): 23.9, 24.0, 1766.0, 1766.1, nan, inf, abc
FreqTexts ==
    {Dec(23, 9), Dec(24, 0), Dec(1766, 0), Dec(1766, 1),
     Word("nan"), Word("inf"), Word("text")}

\* values of gain (dB): table entries, near misses, nan, abc, true
GainTexts ==
    {Lit(0), Dec(0, 9), Lit(1), Dec(20, 7), Dec(20, 8), Dec(49, 6), Dec(49, 7),
     Word("nan"), Word("text"), Word("true")}

\* values of gain sent along with freq
BatchGainTexts == {Dec(20, 7), Dec(20, 8), Dec(49, 6), Word("text")}

VfoIndexTexts == {Lit(i) : i \in 0..MaxVfoIndex} \cup {Dec(0, 5)}

\* values of vfo_freq (Hz)
VfoFreqTexts ==
    {Lit(23999999), Lit(24000000), Lit(1766000000), Lit(1766000001)}

\* values of vfo_bw (Hz)
VfoBwTexts ==
    {Lit(0), Lit(-1000), Lit(12500), Lit(2400000), Lit(2400001)}

StateTexts == {Word("true"), Word("false"), Word("text")}

CoordTexts == {Dec(51, 5), Word("text")}

EmptyQuery == [x \in {} |-> <<>>]

\* the queries that give the parameter name one of the values, or leave it out
Opt(name, texts) == {EmptyQuery} \cup {name :> <<t>> : t \in texts}

Both(A, B) == {a @@ b : a \in A, b \in B}

Path(name) == ApiPrefix \o name

\* the paths and queries of the GET requests
GetTargets ==
    ({Path(<<"set_frequency">>)} \X
        (Both(Opt("freq", FreqTexts), Opt("gain", BatchGainTexts))
         \cup {"freq" :> <<Lit(100), Lit(200)>>}))
    \cup ({Path(<<"set_frequency", "_and_vfo">>)} \X
        Both(Opt("freq", {Lit(100)}),
             Both(Opt("vfo_index", {Lit(i) : i \in 0..MaxVfoIndex}),
                  Opt("vfo_freq", {Lit(24000000), Lit(1766000001)}))))
    \cup ({Path(<<"set_gain">>)} \X Opt("gain", GainTexts))
    \cup ({Path(<<"set_output_vfo">>)} \X Opt("vfo_index", VfoIndexTexts))
    \cup ({Path(<<"en_optimize_short_bursts">>)} \X Opt("state", StateTexts))
    \cup ({Path(<<"set_vfo_frequency">>)} \X
        Both(Opt("vfo_index", VfoIndexTexts), Opt("vfo_freq", VfoFreqTexts)))
    \cup ({Path(<<"set_vfo_bandwidth">>)} \X
        Both(Opt("vfo_index", {Lit(i) : i \in 0..MaxVfoIndex}), Opt("vfo_bw", VfoBwTexts)))
    \cup ({Path(<<"set_coordinates">>)} \X
        Both(Opt("latitude", CoordTexts),
             Both(Opt("longitude", {Dec(0, 1)}),
                  {EmptyQuery, ("heading" :> <<Lit(90)>>) @@ ("bogus" :> <<Word("text")>>)})))
    \cup ({Path(<<"get_config">>)} \X Opt("bogus", {Word("text")}))
    \cup ({Path(<<"get_doa">>), Path(<<"nosuch">>), <<"/">>} \X {EmptyQuery})

\* the addresses requests come from: one that the allow-list names, one not
Clients == {"10.0.0.5", "10.0.0.6"}

Request(method, client, target, length) ==
    [method |-> method, client |-> client, path |-> target[1],
     query |-> target[2], length |-> length]

GetRequests == {Request("GET", c, t, 0) : c \in Clients, t \in GetTargets}

PostRequests ==
    {Request("POST", c, <<Path(<<"set_gain">>), EmptyQuery>>, n) :
        c \in Clients, n \in {0, 16}}

HeadRequests ==
    {Request("HEAD", c, <<Path(<<"get_config">>), EmptyQuery>>, 0) : c \in Clients}

NoRequest == Request("", "", <<<<>>, EmptyQuery>>, 0)

\* the rows a feed is made of: a good row of 377 columns, a short one, a row
\* whose epoch is no integer and a row whose DOA power columns are no numbers
RowKinds ==
    {[ncols |-> 377, epoch |-> Lit(1000), base |-> Dec(10, 5), power |-> Dec(0, 5)],
     [ncols |-> 376, epoch |-> Lit(1000), base |-> Dec(10, 5), power |-> Dec(0, 5)],
     [ncols |-> 377, epoch |-> Dec(1, 5), base |-> Dec(10, 5), power |-> Dec(0, 5)],
     [ncols |-> 377, epoch |-> Lit(1000), base |-> Dec(10, 5), power |-> Word("text")]}

Row(i, kind) ==
    [id |-> i, ncols |-> kind.ncols, epoch |-> kind.epoch, base |-> kind.base,
     power |-> kind.power]

Feeds ==
    {[status |-> "ok", rows |-> [i \in 1..n |-> Row(i, kinds[i])]] :
        n \in 0..MaxRows, kinds \in [1..MaxRows -> RowKinds]}
    \cup {[status |-> s, rows |-> <<>>] : s \in {"unreachable", "http_error"}}

\* the pieces of an --allowedips string: an address, one with blanks around
\* it, one inside other text, a host name, blanks only, nothing
Pieces ==
    {<<q>> : q \in Quads}
    \cup {<<" ", "10.0.0.5", " ">>, <<"x", "10.0.0.5", "x">>, <<"x">>, <<" ">>, <<>>}

AllowedIPStrings ==
    UNION {[1..n -> Pieces] : n \in 1..MaxEntries}

\* the worker threads of the server: one per open connection
Workers == {1, 2}

\* a worker that has no request
NoWork ==
    [op |-> [name |-> "", freq |-> Absent, gain |-> Absent], n |-> 0, pc |-> "",
     settings |-> <<>>, buf |-> <<>>, observed |-> "", began |-> {}, errcode |-> -1]

\* the requests the worker threads handle: set_frequency with freq and gain,
\* set_frequency with freq alone, set_gain, get_config
ThreadOps ==
    {[name |-> "set_frequency", freq |-> Float(100, 0), gain |-> g] :
        g \in {Float(49, 6), Float(20, 8)}}
    \cup {[name |-> "set_frequency", freq |-> Float(433, 9), gain |-> Absent],
          [name |-> "set_gain", freq |-> Absent, gain |-> Float(20, 7)],
          [name |-> "get_config", freq |-> Absent, gain |-> Absent]}

\* the keys and values update_value is called with
StoreCalls ==
    {[key |-> <<"center_freq">>, new_value |-> v, save_file |-> b] :
        v \in {Float(100, 0), Float(433, 9)}, b \in BOOLEAN}
    \cup {[key |-> <<"uniform_gain">>, new_value |-> v, save_file |-> b] :
        v \in {Float(20, 7), Float(49, 6)}, b \in BOOLEAN}

\* what the device's own interface sets in the file
DeviceWrites ==
    {[key |-> <<"station_id">>, new_value |-> Word("true")],
     [key |-> <<"center_freq">>, new_value |-> Float(868, 0)]}

---------------------------------------------------------------------------
(* The state machine *)

\* the settings.json the device ships: it exists before the agent starts
InitialSettings ==
    (<<"center_freq">> :> Float(416, 5)) @@ (<<"uniform_gain">> :> Float(15, 7))
    @@ (<<"en_optimize_short_bursts">> :> PyBool(FALSE))
    @@ (<<"latitude">> :> Float(0, 0)) @@ (<<"longitude">> :> Float(0, 0))
    @@ (<<"output_vfo">> :> PyInt(0)) @@ (<<"station_id">> :> Word("text"))

\* no request is being handled
Idle ==
    /\ request = NoRequest
    /\ responses = <<>>
    /\ writes = <<>>
    /\ reads = 0
    /\ before = [file |-> settings_file, settings |-> settings]
    /\ doa_feed = <<>>
    /\ doa = <<>>
    /\ escaped = FALSE
    /\ served = 0
    /\ call = <<>>
    /\ heap = <<>>
    /\ worker = [w \in Workers |-> NoWork]
    /\ written = "all"
    /\ log = <<>>

\* the agent is serving, started with no --allowedips or with 10.0.0.5
Init ==
    /\ allowedIPstr \in {<< <<>> >>, << <<"10.0.0.5">> >>}
    /\ process = [phase |-> "serving", code |-> 0]
    /\ allowedIPs = main(allowedIPstr, TRUE).allowedIPs
    /\ debugHTTP \in BOOLEAN
    /\ settings_file = InitialSettings
    /\ settings = <<>>
    /\ Idle

\* the handler run starts from the file and the staged copy as they are
Start ==
    [st |-> [file |-> settings_file, settings |-> settings, writes |-> <<>>, reads |-> 0],
     responses |-> <<>>, doa |-> <<>>, escaped |-> FALSE]

Finished(req, h, feed) ==
    /\ request = NoRequest
    /\ served < MaxRequests
    /\ served' = served + 1
    /\ request' = req
    /\ settings_file' = h.st.file
    /\ settings' = h.st.settings
    /\ writes' = h.st.writes
    /\ reads' = h.st.reads
    /\ responses' = h.responses
    /\ doa' = h.doa
    /\ doa_feed' = IF h.doa = <<>> THEN <<>> ELSE <<feed>>
    /\ escaped' = h.escaped
    /\ before' = [file |-> settings_file, settings |-> settings]
    /\ UNCHANGED <<allowedIPs, debugHTTP, allowedIPstr, process, call>>
    /\ UNCHANGED threadVars

HandleGET ==
    \E req \in GetRequests :
        \E feed \in IF req.path = Path(<<"get_doa">>) THEN Feeds
                    ELSE {[status |-> "unreachable", rows |-> <<>>]} :
            Finished(req, do_GET(Start, req, feed), feed)

HandlePOST == \E req \in PostRequests : Finished(req, do_POST(Start, req), <<>>)

HandleHEAD == \E req \in HeadRequests : Finished(req, do_HEAD(Start, req), <<>>)

\* the handler has returned: the connection is shut down and its thread ends
Close ==
    /\ request # NoRequest
    /\ request' = NoRequest
    /\ responses' = <<>>
    /\ writes' = <<>>
    /\ reads' = 0
    /\ before' = [file |-> settings_file, settings |-> settings]
    /\ doa_feed' = <<>>
    /\ doa' = <<>>
    /\ escaped' = FALSE
    /\ UNCHANGED <<allowedIPs, debugHTTP, settings_file, settings, served,
                   allowedIPstr, process, call>>
    /\ UNCHANGED threadVars

Next == HandleGET \/ HandlePOST \/ HandleHEAD \/ Close

Spec == Init /\ [][Next]_vars

---------------------------------------------------------------------------
(* Startup: the process from __main__ to serving or to its exit. *)

InitStartup ==
    /\ allowedIPstr \in AllowedIPStrings
    /\ process = [phase |-> "main", code |-> 0]
    /\ allowedIPs = <<>>
    /\ debugHTTP \in BOOLEAN
    /\ settings_file = InitialSettings
    /\ settings = <<>>
    /\ Idle

Main ==
    /\ process.phase = "main"
    /\ \E port_free \in BOOLEAN :
          LET m == main(allowedIPstr, port_free) IN
          /\ allowedIPs' = m.allowedIPs
          /\ process' = [phase |-> m.phase, code |-> m.code]
    /\ UNCHANGED <<debugHTTP, settings_file, settings, allowedIPstr, call>>
    /\ UNCHANGED handlerVars
    /\ UNCHANGED threadVars

NextStartup == Main

SpecStartup == InitStartup /\ [][NextStartup]_vars

---------------------------------------------------------------------------
(* The settings store called directly: any sequence of update_value calls, *)
(* with the device rewriting its settings.json in between.                 *)

InitStore ==
    /\ allowedIPstr = << <<>> >>
    /\ process = [phase |-> "serving", code |-> 0]
    /\ allowedIPs = <<>>
    /\ debugHTTP = FALSE
    /\ settings_file = InitialSettings
    /\ settings = <<>>
    /\ Idle

UpdateValue ==
    \E c \in StoreCalls :
        LET st == update_value(Start.st, c.key, c.new_value, c.save_file) IN
        /\ call' = <<c>>
        /\ settings_file' = st.file
        /\ settings' = st.settings
        /\ writes' = st.writes
        /\ reads' = st.reads
        /\ before' = [file |-> settings_file, settings |-> settings]
        /\ UNCHANGED <<allowedIPs, debugHTTP, allowedIPstr, process, request,
                       responses, doa_feed, doa, escaped, served>>
        /\ UNCHANGED threadVars

\* the device saves a setting changed in its own interface
DeviceWrite ==
    \E d \in DeviceWrites :
        /\ settings_file' = Put(settings_file, d.key, d.new_value)
        /\ call' = <<>>
        /\ writes' = <<>>
        /\ reads' = 0
        /\ before' = [file |-> settings_file', settings |-> settings]
        /\ UNCHANGED <<allowedIPs, debugHTTP, allowedIPstr, process, settings,
                       request, responses, doa_feed, doa, escaped, served>>
        /\ UNCHANGED threadVars

NextStore == UpdateValue \/ DeviceWrite

SpecStore == InitStore /\ [][NextStore]_vars

---------------------------------------------------------------------------
(* The worker threads: ThreadingMixIn runs every request's handler on a    *)
(* thread of its own, and the handlers share the one KrakenSDRControl and  *)
(* the one settings.json.  A step is one statement of krakensdr_control.py *)
(* that reads or writes what the threads share; a position is named after *)
(* the line of that statement.  Here settings, self.settings, is <<>> for  *)
(* None or <<i>> for the dict heap[i], and a worker's settings is the      *)
(* local variable of that name in update_value.                            *)

\* the update_value calls a request's handler makes, in order
Calls(op) ==
    IF op.name = "set_frequency" THEN
        IF op.gain = Absent
        THEN <<[key |-> <<"center_freq">>, new_value |-> op.freq, save_file |-> TRUE]>>
        ELSE <<[key |-> <<"center_freq">>, new_value |-> op.freq, save_file |-> FALSE],
               [key |-> <<"uniform_gain">>, new_value |-> op.gain, save_file |-> TRUE]>>
    ELSE IF op.name = "set_gain"
    THEN <<[key |-> <<"uniform_gain">>, new_value |-> op.gain, save_file |-> TRUE]>>
    ELSE <<>>

\* the n-th call of the handler is a call of set_gain
IsSetGain(op, n) == n <= Len(Calls(op)) /\ Calls(op)[n].key = <<"uniform_gain">>

is_None_mutant(x) == TRUE

\* self.settings is None
is_None(x) == x = <<>>

InitThreads ==
    /\ allowedIPstr = << <<>> >>
    /\ process = [phase |-> "serving", code |-> 0]
    /\ allowedIPs = <<>>
    /\ debugHTTP = FALSE
    /\ settings_file = InitialSettings
    /\ settings = <<>>
    /\ Idle

\* the handler answers: errcode 0, or the errcode of its except clause
Respond(w, code) == [w EXCEPT !.pc = "done", !.errcode = code]

\* the handler goes on to its call number n, or answers when there is none
\* left; set_gain raises before it calls update_value when the gain is not in
\* the table
Enter(w, n) ==
    IF n > Len(Calls(w.op)) THEN Respond(w, 0)
    ELSE IF IsSetGain(w.op, n) /\ ~In(w.op.gain, valid_gains) THEN Respond(w, 3)
    ELSE [w EXCEPT !.n = n, !.pc = "L35"]

Step(w, new) ==
    /\ worker' = [worker EXCEPT ![w] = new]
    /\ UNCHANGED <<allowedIPs, debugHTTP, allowedIPstr, process, call>>
    /\ UNCHANGED handlerVars

\* a connection arrives and its thread starts the handler
Accept(w) ==
    /\ worker[w].pc = ""
    /\ \E op \in ThreadOps :
          Step(w, IF op.name = "get_config"
                  THEN [worker[w] EXCEPT !.op = op, !.pc = "L22"]
                  ELSE Enter([worker[w] EXCEPT !.op = op], 1))
    /\ UNCHANGED <<settings_file, settings, heap, written, log>>

\* get_config of the get_config request: json.load raises on a file that does
\* not hold a whole document, and the handler answers errcode 1
L22(w) ==
    /\ worker[w].pc = "L22"
    /\ Step(w, Respond([worker[w] EXCEPT !.observed = written],
                       IF written = "all" THEN 0 ELSE 1))
    /\ UNCHANGED <<settings_file, settings, heap, written, log>>

\* if self.settings is None
L35(w) ==
    /\ worker[w].pc = "L35"
    /\ Step(w, [worker[w] EXCEPT
                  !.pc = IF is_None(settings) THEN "L36" ELSE "L38",
                  !.began = {a \in Workers \ {w} :
                                worker[a].pc = "L35" /\ worker[a].n = 2}])
    /\ UNCHANGED <<settings_file, settings, heap, written, log>>

\* settings = self.get_config(): json.load builds a new dict
L36(w) ==
    /\ worker[w].pc = "L36"
    /\ IF written = "all"
       THEN /\ heap' = Append(heap, settings_file)
            /\ Step(w, [worker[w] EXCEPT !.pc = "L40", !.observed = written,
                                         !.settings = <<Len(heap) + 1>>])
       ELSE /\ heap' = heap
            /\ Step(w, Respond([worker[w] EXCEPT !.observed = written], 3))
    /\ UNCHANGED <<settings_file, settings, written, log>>

\* settings = self.settings: the same dict, or None by now
L38(w) ==
    /\ worker[w].pc = "L38"
    /\ Step(w, [worker[w] EXCEPT !.pc = "L40", !.settings = settings])
    /\ UNCHANGED <<settings_file, settings, heap, written, log>>

\* settings[key] = new_value: TypeError when settings is None
L40(w) ==
    /\ worker[w].pc = "L40"
    /\ LET c == Calls(worker[w].op)[worker[w].n] IN
       IF worker[w].settings = <<>>
       THEN /\ heap' = heap
            /\ Step(w, Respond(worker[w], 3))
       ELSE /\ heap' = [heap EXCEPT ![worker[w].settings[1]] =
                                        Put(@, c.key, c.new_value)]
            /\ Step(w, [worker[w] EXCEPT !.pc = IF c.save_file THEN "L28" ELSE "L47"])
    /\ UNCHANGED <<settings_file, settings, written, log>>

\* open(self.settings_file, "w") truncates the file
L28(w) ==
    /\ worker[w].pc = "L28"
    /\ written' = "none"
    /\ Step(w, [worker[w] EXCEPT !.pc = "L29"])
    /\ UNCHANGED <<settings_file, settings, heap, log>>

\* json.dump(new_config, file): the text of the dict goes to the file's buffer
L29(w) ==
    /\ worker[w].pc = "L29"
    /\ Step(w, [worker[w] EXCEPT !.pc = "L29x",
                                 !.buf = <<heap[worker[w].settings[1]]>>])
    /\ UNCHANGED <<settings_file, settings, heap, written, log>>

\* the end of the with block closes the file: the buffer is written from
\* offset 0; over the bytes another writer put there since the truncation it
\* leaves a whole document or, when it is the shorter one, the other's tail
L29x(w) ==
    /\ worker[w].pc = "L29x"
    /\ settings_file' = worker[w].buf[1]
    /\ written' \in (IF written = "none" THEN {"all"} ELSE {"all", "part"})
    /\ log' = Append(log, [by |-> w, doc |-> worker[w].buf[1]])
    /\ Step(w, [worker[w] EXCEPT !.pc = "L44", !.buf = <<>>])
    /\ UNCHANGED <<settings, heap>>

\* self.settings = None, and update_value returns
L44(w) ==
    /\ worker[w].pc = "L44"
    /\ settings' = <<>>
    /\ Step(w, Enter([worker[w] EXCEPT !.settings = <<>>], worker[w].n + 1))
    /\ UNCHANGED <<settings_file, heap, written, log>>

\* self.settings = settings, and update_value returns
L47(w) ==
    /\ worker[w].pc = "L47"
    /\ settings' = worker[w].settings
    /\ Step(w, Enter([worker[w] EXCEPT !.settings = <<>>], worker[w].n + 1))
    /\ UNCHANGED <<settings_file, heap, written, log>>

NextThreads ==
    \E w \in Workers :
        \/ Accept(w)
        \/ L22(w)
        \/ L35(w)
        \/ L36(w)
        \/ L38(w)
        \/ L40(w)
        \/ L28(w)
        \/ L29(w)
        \/ L29x(w)
        \/ L44(w)
        \/ L47(w)

SpecThreads == InitThreads /\ [][NextThreads]_vars

---------------------------------------------------------------------------
(* Vocabulary of the properties *)

Authorized == Len(allowedIPs) = 0 \/ Allowed(request.client)

\* the last request was a GET from an authorized client to this API path
Dispatched(name) ==
    /\ request.method = "GET"
    /\ Authorized
    /\ request.path = Path(name)

\* the request carries the parameter exactly once
HasOne(name) == name \in DOMAIN request.query /\ Len(request.query[name]) = 1

Sent(name) == name \in DOMAIN request.query

\* the number the parameter's text denotes, when HasOne(name) and it is one
Number(name) == float(param_data_to_dict(request.query)[name])

Integer(name) == int(param_data_to_dict(request.query)[name])

\* a <= v <= b for a finite number v and whole numbers a, b
Between(a, v, b) ==
    /\ v.ty = "float" /\ v.k = "fin"
    /\ a <= v.w
    /\ v.w < b \/ (v.w = b /\ v.t = 0)

InRangeMHz(v) == Between(24, v, 1766)

InRangeHz(v) == Between(24000000, v, 1766000000)

\* exactly one response went out and it is a JSON envelope
AnsweredJson == Len(responses) = 1 /\ responses[1].ctype = "json"

AnsweredOk == AnsweredJson /\ responses[1].json[1].errcode = 0

AnsweredError == AnsweredJson /\ responses[1].json[1].errcode # 0

Unchanged == settings_file = before.file /\ writes = <<>>

Holds(doc, key, v) == key \in DOMAIN doc /\ doc[key] = v

---------------------------------------------------------------------------
(* C1: a set_frequency request carrying an in-range freq f and a gain g of *)
(* the gain table rewrites the settings file exactly once, and the         *)
(* document written has center_freq = f and uniform_gain = g: the          *)
(* frequency is staged, never written on its own.                          *)

C1_Case ==
    /\ Dispatched(<<"set_frequency">>)
    /\ HasOne("freq") /\ Number("freq").exc = "" /\ InRangeMHz(Number("freq").v)
    /\ HasOne("gain") /\ Number("gain").exc = "" /\ In(Number("gain").v, valid_gains)

C1_Batching ==
    C1_Case =>
        /\ Len(writes) = 1
        /\ Holds(writes[1], <<"center_freq">>, Number("freq").v)
        /\ Holds(writes[1], <<"uniform_gain">>, Number("gain").v)
        /\ settings_file = writes[1]

\* the batch arrives while an earlier rejected request's staged copy is pending
C1_Witness == C1_Case /\ Len(writes) = 1 /\ before.settings # <<>>

---------------------------------------------------------------------------
(* C2: a set_frequency request without gain is accepted (errcode 0 and     *)
(* center_freq written as f) if and only if 24.0 <= f <= 1766.0; for every *)
(* other f the response has a nonzero errcode and the document is          *)
(* unchanged.  Stated with --debug-http off, where responses are sent.     *)

C2_Case ==
    /\ ~debugHTTP
    /\ Dispatched(<<"set_frequency">>)
    /\ HasOne("freq") /\ ~Sent("gain")

C2_AcceptsIffInRange ==
    C2_Case =>
        IF Number("freq").exc = "" /\ InRangeMHz(Number("freq").v)
        THEN AnsweredOk /\ Len(writes) = 1
             /\ Holds(settings_file, <<"center_freq">>, Number("freq").v)
        ELSE AnsweredError /\ Unchanged

---------------------------------------------------------------------------
(* C3: a set_gain request with gain=g succeeds (errcode 0 and uniform_gain *)
(* written as g) if and only if g is one of the 29 entries of the gain     *)
(* table; for every other g it is rejected with a nonzero errcode and      *)
(* uniform_gain is not written.                                            *)

C3_Case == Dispatched(<<"set_gain">>) /\ HasOne("gain")

C3_SucceedsIffInTable ==
    /\ Len(valid_gains) = 29
    /\ C3_Case =>
        IF Number("gain").exc = "" /\ In(Number("gain").v, valid_gains)
        THEN AnsweredOk /\ Len(writes) = 1
             /\ Holds(settings_file, <<"uniform_gain">>, Number("gain").v)
        ELSE AnsweredError /\ writes = <<>>

---------------------------------------------------------------------------
(* C4: a set_frequency_and_vfo request with in-range freq f, integer       *)
(* vfo_index i and in-range vfo_freq v leaves the document with            *)
(* center_freq = f and vfo_freq_<i> = v; a request missing vfo_index or    *)
(* vfo_freq, or with vfo_freq outside 24e6..1766e6, gets a nonzero errcode *)
(* and writes nothing.  Stated with --debug-http off.                      *)

C4_Case ==
    /\ ~debugHTTP
    /\ Dispatched(<<"set_frequency", "_and_vfo">>)
    /\ HasOne("freq") /\ Number("freq").exc = "" /\ InRangeMHz(Number("freq").v)

C4_Complete ==
    /\ HasOne("vfo_index") /\ Integer("vfo_index").exc = ""
    /\ HasOne("vfo_freq") /\ Number("vfo_freq").exc = ""

C4_StagesThenCommitsVfo ==
    C4_Case =>
        IF C4_Complete /\ InRangeHz(Number("vfo_freq").v)
        THEN /\ Holds(settings_file, <<"center_freq">>, Number("freq").v)
             /\ Holds(settings_file, <<"vfo_freq_", str(Integer("vfo_index").v)>>,
                      Number("vfo_freq").v)
        ELSE IF ~Sent("vfo_index") \/ ~Sent("vfo_freq") \/ C4_Complete
        THEN AnsweredError /\ writes = <<>>
        ELSE TRUE

---------------------------------------------------------------------------
(* C5: with a non-empty allow-list, every request (GET, POST or HEAD)      *)
(* whose source IP is not in the list gets HTTP 403 without a JSON body    *)
(* and neither reads nor writes the document or the staged copy; a request *)
(* from a listed IP is not answered 403.  Stated with --debug-http off.    *)

C5_Case == ~debugHTTP /\ request # NoRequest /\ Len(allowedIPs) > 0

C5_AllowList ==
    C5_Case =>
        IF ~Allowed(request.client)
        THEN /\ Len(responses) = 1
             /\ responses[1].status = 403 /\ responses[1].ctype # "json"
             /\ reads = 0 /\ writes = <<>> /\ settings = before.settings
        ELSE \A i \in 1..Len(responses) : responses[i].status # 403

---------------------------------------------------------------------------
(* C6: when the DOA feed is empty, unreachable, answers with an HTTP error *)
(* or holds no acceptable row, get_doa answers the success envelope with   *)
(* errcode 0 and doa_info = null; when the feed yields records, doa_info   *)
(* is the first of them.  Stated with --debug-http off.                    *)

\* a row the parser is to accept: 377 columns or more, every number a number
Acceptable(row) ==
    /\ row.ncols >= 377
    /\ int(row.epoch).exc = "" /\ float(row.base).exc = ""
    /\ float(row.power).exc = ""

AcceptableRows(feed) ==
    IF feed.status = "ok" THEN SelectSeq(feed.rows, Acceptable) ELSE <<>>

Ids(rows) == [i \in 1..Len(rows) |-> rows[i].id]

C6_Case == ~debugHTTP /\ Dispatched(<<"get_doa">>) /\ doa_feed # <<>>

DoaInfo == responses[1].json[1].extra

C6_SoftFailure ==
    C6_Case =>
        /\ AnsweredOk
        /\ Len(DoaInfo) = 1 /\ DoaInfo[1].key = "doa_info"
        /\ IF AcceptableRows(doa_feed[1]) = <<>>
           THEN DoaInfo[1].val = <<>>
           ELSE /\ Len(DoaInfo[1].val) = 1
                /\ DoaInfo[1].val[1].id = AcceptableRows(doa_feed[1])[1].id

---------------------------------------------------------------------------
(* C7: fetch_and_process_csv returns, in feed order, exactly one record    *)
(* for each row with at least 377 columns whose numeric fields all coerce, *)
(* skips every other row (DOA power values that fail to coerce included)   *)
(* and never raises an exception to its caller.                            *)

C7_Case == request # NoRequest /\ doa # <<>>

C7_RowIsolation ==
    C7_Case =>
        /\ doa[1].exc = ""
        /\ Ids(doa[1].rows) = Ids(AcceptableRows(doa_feed[1]))

---------------------------------------------------------------------------
(* C8: every GET from an authorized source to an API path, whatever its    *)
(* parameters and whatever --debug-http, ends having sent exactly one      *)
(* response, a JSON envelope with errcode and errmsg, and no exception     *)
(* leaves the handler.                                                     *)

C8_Case ==
    /\ request.method = "GET" /\ Authorized
    /\ startswith(request.path, ApiPrefix)

C8_ExceptionBoundary ==
    C8_Case =>
        /\ AnsweredJson
        /\ DOMAIN responses[1].json[1] = {"errcode", "errmsg", "extra"}
        /\ ~escaped

---------------------------------------------------------------------------
(* C9: a set_vfo_bandwidth request with integer vfo_index i and bandwidth  *)
(* bw answers errcode 0 and leaves vfo_bw_<i> = bw when 0 < bw <= 2.4e6,   *)
(* and answers a nonzero errcode with the document unchanged for every     *)
(* other bw.  Stated with --debug-http off.                                *)

C9_Case ==
    /\ ~debugHTTP
    /\ Dispatched(<<"set_vfo_bandwidth">>)
    /\ HasOne("vfo_index") /\ Integer("vfo_index").exc = ""
    /\ HasOne("vfo_bw") /\ Number("vfo_bw").exc = ""

C9_Bandwidth ==
    C9_Case =>
        IF Gt(Number("vfo_bw").v, Float(0, 0)) /\ Between(0, Number("vfo_bw").v, 2400000)
        THEN /\ AnsweredOk
             /\ Holds(settings_file, <<"vfo_bw_", str(Integer("vfo_index").v)>>,
                      Number("vfo_bw").v)
        ELSE AnsweredError /\ Unchanged

---------------------------------------------------------------------------
(* C10: a set_coordinates request with numeric latitude and longitude      *)
(* answers errcode 0 and writes at once the freshly read document with the *)
(* location fields of the request set and every other key unchanged,       *)
(* leaving the staged copy alone; a request missing latitude or longitude  *)
(* gets a nonzero errcode and writes nothing.  Stated with --debug-http    *)
(* off.                                                                    *)

C10_Case == ~debugHTTP /\ Dispatched(<<"set_coordinates">>)

C10_Numeric ==
    /\ HasOne("latitude") /\ Number("latitude").exc = ""
    /\ HasOne("longitude") /\ Number("longitude").exc = ""

C10_Coordinates ==
    C10_Case =>
        IF C10_Numeric
        THEN /\ AnsweredOk
             /\ writes = <<ApplyCoordinates(before.file,
                              param_data_to_dict(request.query), 1).doc>>
             /\ settings = before.settings
        ELSE IF ~Sent("latitude") \/ ~Sent("longitude")
        THEN AnsweredError /\ writes = <<>>
        ELSE TRUE

---------------------------------------------------------------------------
(* C11: a set_output_vfo request whose vfo_index parses as an integer n    *)
(* answers errcode 0 and commits it, so that the document afterwards has   *)
(* output_vfo = n; a request without vfo_index or with a vfo_index that is *)
(* no integer gets a nonzero errcode and writes nothing.  Stated with      *)
(* --debug-http off.                                                       *)

C11_Case == ~debugHTTP /\ Dispatched(<<"set_output_vfo">>)

C11_OutputVfo ==
    C11_Case =>
        IF HasOne("vfo_index") /\ Integer("vfo_index").exc = ""
        THEN /\ AnsweredOk /\ Len(writes) = 1
             /\ Holds(settings_file, <<"output_vfo">>, Integer("vfo_index").v)
        ELSE AnsweredError /\ writes = <<>>

---------------------------------------------------------------------------
(* C16: a rejected request leaves nothing behind.  When a request has been *)
(* answered with a nonzero errcode the staged copy is empty, and a later   *)
(* successful set_gain or set_vfo_frequency writes no value the rejected   *)
(* request supplied: it does not change center_freq.                       *)

C16_Later ==
    /\ Dispatched(<<"set_gain">>) \/ Dispatched(<<"set_vfo_frequency">>)
    /\ AnsweredOk

C16_NothingLeftBehind ==
    /\ (request # NoRequest /\ AnsweredError) => settings = <<>>
    /\ C16_Later =>
          settings_file[<<"center_freq">>] = before.file[<<"center_freq">>]

---------------------------------------------------------------------------
(* C14: a malformed allow-list is fatal at startup.  When --allowedips is  *)
(* not empty and one of its entries, alone or in a comma-separated list,   *)
(* is no dotted-quad IPv4 literal, the process exits with a nonzero code   *)
(* before it serves; the agent never serves with an empty (allow-all)      *)
(* list when a non-empty --allowedips was given.                           *)

\* the entry is a dotted quad, blanks around it aside
DottedQuad(entry) == Len(replace(entry)) = 1 /\ replace(entry)[1] \in Quads

Malformed(str_) == \E i \in 1..Len(str_) : ~DottedQuad(str_[i])

C14_Case == process.phase # "main" /\ NonEmpty(allowedIPstr)

C14_MalformedIsFatal ==
    C14_Case =>
        /\ Malformed(allowedIPstr) => (process.phase = "exited" /\ process.code # 0)
        /\ process.phase = "serving" => allowedIPs # <<>>

---------------------------------------------------------------------------
(* C12: after any sequence of update_value calls, update_value(k, v,       *)
(* commit = true) writes a document equal to the settings document as it   *)
(* is on disk at the moment of the call with only k set to v (a freshly    *)
(* read copy, not an earlier snapshot), and leaves the staged copy empty.  *)

C12_Case == call # <<>> /\ call[1].save_file

\* update_value wrote once, the document base with the call's key set
C12_Wrote(base) ==
    /\ writes = <<Put(base, call[1].key, call[1].new_value)>>
    /\ settings_file = writes[1]
    /\ settings = <<>>

C12_FreshCopy == C12_Case => C12_Wrote(before.file)

(* C12 as amended: the document written is the staged copy, when one is    *)
(* pending, and otherwise the document on disk at the moment of the call,  *)
(* with only k set to v; the staged copy is empty afterwards.              *)

C12_StagedOrFresh ==
    C12_Case =>
        C12_Wrote(IF before.settings = <<>> THEN before.file ELSE before.settings[1])

\* a commit made while a staged copy that differs from the file was pending
C12_Witness ==
    /\ C12_Case
    /\ before.settings # <<>> /\ before.settings[1] # before.file
    /\ writes # <<>>

---------------------------------------------------------------------------
(* C13: the save is atomic.  While save_config rewrites the settings file, *)
(* a concurrent reader of the file never finds it empty or partly written: *)
(* every read returns the whole old document or the whole new one.         *)

C13_AtomicSave ==
    \A w \in Workers : worker[w].observed \in {"", "all"}

---------------------------------------------------------------------------
(* C15: the staging race.  Two requests on separate worker threads, one of *)
(* them set_frequency with freq and gain, can interleave so that the       *)
(* batching is broken.  Whenever a set_gain request runs its whole commit  *)
(* while the other worker stands between staging its frequency and         *)
(* committing its gain, that commit succeeds, writes the staged frequency  *)
(* along with its own gain and empties the staged copy, so that the other  *)
(* worker's frequency and gain reach the file in two different writes.     *)

\* the worker has staged its frequency and has not yet begun to commit its gain
C15_Staged(a) ==
    /\ worker[a].op.name = "set_frequency" /\ worker[a].op.gain # Absent
    /\ worker[a].pc = "L35" /\ worker[a].n = 2

\* the worker's set_gain request began and ended while a stood staged
C15_RanDuring(b, a) ==
    /\ worker[b].op.name = "set_gain" /\ worker[b].pc = "done"
    /\ a \in worker[b].began

C15_StagingRace ==
    \A a \in Workers : \A b \in Workers \ {a} :
        (C15_Staged(a) /\ C15_RanDuring(b, a)) =>
            /\ worker[b].errcode = 0
            /\ log # <<>> /\ log[Len(log)].by = b
            /\ log[Len(log)].doc[<<"center_freq">>] = worker[a].op.freq
            /\ log[Len(log)].doc[<<"uniform_gain">>] = worker[b].op.gain
            /\ settings = <<>>

\* a set_gain request has run while the other worker stood staged, and its
\* write, the only one so far, carries the frequency that worker staged
C15_Witness ==
    \E a \in Workers : \E b \in Workers \ {a} :
        /\ C15_Staged(a) /\ C15_RanDuring(b, a)
        /\ Len(log) = 1 /\ log[1].by = b
        /\ log[1].doc[<<"center_freq">>] = worker[a].op.freq
        /\ worker[a].op.freq # InitialSettings[<<"center_freq">>]

=============================================================================
